---- MODULE Spec2Model ----
(***************************************************************************)
(* vnpy_webtrader: the web service (web.py) that puts a bearer-token       *)
(* protected REST gateway and a websocket push channel in front of the     *)
(* trading engine's RPC client.                                            *)
(*                                                                         *)
(* Four specifications share the state:                                    *)
(*   SpecRest  the clock and the token protected REST handlers;            *)
(*   SpecToken the clock, login and the queries made with its tokens;      *)
(*   Spec      the clock, the websocket handshake and receive loop, the    *)
(*             RPC callback thread and the broadcast tasks of the loop;    *)
(*   SpecPanel the configuration panel (ui/widget.py) that starts and      *)
(*             stops the web process.                                      *)
(***************************************************************************)
EXTENDS Integers, Sequences, FiniteSets, TLC

(***************************************************************************)
(* Bounds of the model.                                                    *)
(***************************************************************************)
\* the clock runs over the whole seconds 0..MaxTime
MaxTime == 1
\* websocket objects the clients may open
MaxConns == 2
\* events the backend publishes
MaxEvents == 2
\* orders the backend accepts
MaxOrders == 1
\* web processes the panel starts
MaxRuns == 2

Instants == 0 .. MaxTime
Conns    == 1 .. MaxConns
Events   == 1 .. MaxEvents

(***************************************************************************)
(* Configuration and tokens.                                               *)
(***************************************************************************)
\* setting["username"]: the single configured user
USERNAME == "admin"
\* a subject that is not the configured user
OtherUser == "guest"
\* payload.get("sub") when the payload has no "sub"
NoSub == "None"

\* setting["password"]
PASSWORD == "secret"
\* the names and passwords a login form may carry
Usernames == {USERNAME, "Admin", "", OtherUser}
Passwords == {PASSWORD, "Secret", ""}

\* token timeout (minutes), and create_access_token's own default
ACCESS_TOKEN_EXPIRE_MINUTES == 30
DEFAULT_EXPIRE_MINUTES == 15
\* timedelta(minutes=m) in the clock's unit, the second
Minutes(m) == m * 60
\* the instants a token's lifetime after the first ones
LateInstants == {t + Minutes(ACCESS_TOKEN_EXPIRE_MINUTES) : t \in Instants}

\* A bearer token as a client presents it: none at all, a string that is no
\* JWT, or a JWT with a signature (made with SECRET_KEY or not), a subject
\* and an "exp" claim in whole seconds (every token create_access_token
\* makes carries one).
NoToken == [kind |-> "none", sig |-> "bad", sub |-> NoSub, exp |-> 0]
Garbage == [kind |-> "garbage", sig |-> "bad", sub |-> NoSub, exp |-> 0]
JWTs    == [kind : {"jwt"}, sig : {"good", "bad"},
            sub : {USERNAME, OtherUser, NoSub}, exp : Instants]
Tokens  == {NoToken, Garbage} \cup JWTs

\* jose.jwt.decode(token, SECRET_KEY, algorithms=[ALGORITHM]) at clock `now`:
\* JWTError for a string that does not parse, for a signature that does not
\* verify and for an expired token; python-jose's expiry test is
\* `if exp < now: raise ExpiredSignatureError`, both sides in whole seconds,
\* so a token is still decoded in the second now = exp.
jwt_decode(token, now) ==
    IF token.kind # "jwt" \/ token.sig # "good" \/ token.exp < now
    THEN [error |-> TRUE, sub |-> NoSub]
    ELSE [error |-> FALSE, sub |-> token.sub]

\* HTTP responses: status, detail (a text, as the sequence of its pieces) and
\* body (the records returned)
OK(body) == [status |-> "200", detail |-> <<>>, body |-> body]
HTTP_200_OK == OK({})
credentials_exception ==
    [status |-> "401", detail |-> <<"Could not validate credentials">>,
     body |-> {}]
\* OAuth2PasswordBearer(tokenUrl="token") answers a request that carries no
\* bearer token before get_access runs
not_authenticated ==
    [status |-> "401", detail |-> <<"Not authenticated">>, body |-> {}]
HTTP_404_NOT_FOUND(detail) == [status |-> "404", detail |-> detail, body |-> {}]

\* get_access without the comparison of the subject with USERNAME
get_access_any_subject(token, now) ==
    IF token.kind = "none" THEN not_authenticated
    ELSE LET payload == jwt_decode(token, now) IN
         IF payload.error THEN credentials_exception
         ELSE IF payload.sub = NoSub THEN credentials_exception
         ELSE HTTP_200_OK

\* get_access passing on the message of jose's ExpiredSignatureError
get_access_saying_why(token, now) ==
    IF token.kind = "none" THEN not_authenticated
    ELSE LET payload == jwt_decode(token, now) IN
         IF payload.error
         THEN IF token.kind = "jwt" /\ token.sig = "good"
              THEN [status |-> "401", detail |-> <<"Signature has expired.">>,
                    body |-> {}]
              ELSE credentials_exception
         ELSE IF payload.sub = NoSub THEN credentials_exception
         ELSE IF payload.sub # USERNAME THEN credentials_exception
         ELSE HTTP_200_OK

\* get_access: HTTP_200_OK stands for `return True`, anything else is the
\* HTTPException raised
get_access(token, now) ==
    IF token.kind = "none" THEN not_authenticated
    ELSE LET payload == jwt_decode(token, now) IN
         IF payload.error THEN credentials_exception
         ELSE IF payload.sub = NoSub THEN credentials_exception
         ELSE IF payload.sub # USERNAME THEN credentials_exception
         ELSE HTTP_200_OK

\* pwd_context.hash / pwd_context.verify (sha256_crypt): a hash verifies
\* exactly the password it was made from
pwd_hash(password) == <<"sha256_crypt", password>>
pwd_verify(password, hashed) == hashed = pwd_hash(password)

\* Python's Union[str, bool] result: False, or a string
PyFalse == [is_false |-> TRUE, str |-> ""]
PyStr(x) == [is_false |-> FALSE, str |-> x]
\* `not v`: False and the empty string are falsy
Not(v) == v.is_false \/ v.str = ""

\* authenticate_user without the password check
authenticate_user_username_only(current_username, username, password) ==
    IF current_username # username THEN PyFalse ELSE PyStr(username)

\* authenticate_user; secrets.compare_digest is equality of the two strings
authenticate_user(current_username, username, password) ==
    LET hashed_password == pwd_hash(PASSWORD) IN
    IF current_username # username THEN PyFalse
    ELSE IF ~pwd_verify(password, hashed_password) THEN PyFalse
    ELSE PyStr(username)

\* create_access_token(data={"sub": sub}, expires_delta) at clock `at`:
\* expires_delta in seconds, 0 for None (and for a zero timedelta, falsy too)
create_access_token(sub, expires_delta, at) ==
    LET expire == IF expires_delta # 0 THEN at + expires_delta
                  ELSE at + Minutes(DEFAULT_EXPIRE_MINUTES)
    IN [kind |-> "jwt", sig |-> "good", sub |-> sub, exp |-> expire]

\* login's HTTPException
incorrect_login ==
    [status |-> "401", detail |-> <<"Incorrect username or password">>,
     body |-> {}]

(***************************************************************************)
(* The backend behind rpc_client, as far as the handlers see it.           *)
(***************************************************************************)
\* vt_symbol = f"{symbol}.{exchange}", a text kept as its pieces
vt_symbol(symbol, exchange) == <<symbol, ".", exchange>>
\* the contracts the backend knows, and the symbols clients ask for
Contracts == {vt_symbol("IF2412", "CFFEX")}
Symbols   == Contracts \cup {vt_symbol("AAA", "EXCH")}
\* the ids the backend gives to the orders it accepts, in this order
OrderIdSeq == <<"X1", "X2", "X3", "X4">>
OrderIds   == {OrderIdSeq[i] : i \in 1 .. MaxOrders}
\* the order ids clients ask for
AskedIds   == OrderIds \cup {"X9"}

VARIABLES
    now,                \* the clock (datetime.utcnow(), whole seconds)
    backend,            \* the backend's state: subscriptions, orders, cancels
    http,               \* the last REST exchange: request, response and the
                        \* rpc_client calls the handler made for it
    issued,             \* the tokens login has issued
    active_websockets,  \* the list of accepted websockets
    ws,                 \* per websocket: position of its handler, transport
    received,           \* per websocket: the messages written to it
    loop_queue,         \* broadcasts scheduled on the loop, not yet started
    tasks,              \* per event: the broadcast task of the loop
    next_event,         \* the next event the backend publishes
    enabled,            \* WebManager: per widget, whether it is enabled
    text,               \* WebManager: the texts of the line edits
    setting,            \* the saved web_trader_setting.json
    server_active,      \* web_engine.server.is_active()
    procs,              \* the QProcess objects start() made, the last one
                        \* being self.process
    text_edit           \* WebManager: the lines of the log

vars == <<now, backend, http, issued, active_websockets, ws, received,
          loop_queue, tasks, next_event, enabled, text, setting,
          server_active, procs, text_edit>>
panel_vars == <<enabled, text, setting, server_active, procs, text_edit>>
rest_vars == <<backend, http, issued>>
push_vars == <<active_websockets, ws, received, loop_queue, tasks, next_event>>

\* the exchange FastAPI completes for a handler
Reply(handler, token, arg, response, calls) ==
    /\ http' = [handler |-> handler, token |-> token, at |-> now, arg |-> arg,
                response |-> response, calls |-> calls,
                access_token |-> NoToken]
    /\ UNCHANGED <<now, issued, push_vars, panel_vars>>

\* @app.post("/token"): the one handler without Depends(get_access)
login(username, password) ==
    LET web_username == authenticate_user(USERNAME, username, password) IN
    /\ IF Not(web_username)
       THEN /\ http' = [handler |-> "login", token |-> NoToken, at |-> now,
                        arg |-> <<username, password>>,
                        response |-> incorrect_login, calls |-> <<>>,
                        access_token |-> NoToken]
            /\ UNCHANGED issued
       ELSE LET access_token ==
                    create_access_token(web_username.str,
                        Minutes(ACCESS_TOKEN_EXPIRE_MINUTES), now)
            IN /\ http' = [handler |-> "login", token |-> NoToken, at |-> now,
                           arg |-> <<username, password>>,
                           response |-> OK({<<"token_type", "bearer">>}),
                           calls |-> <<>>, access_token |-> access_token]
               /\ issued' = issued \cup {access_token}
    /\ UNCHANGED <<now, backend, push_vars, panel_vars>>

(***************************************************************************)
(* The token protected REST handlers.  FastAPI resolves Depends(get_access)*)
(* first; when it raises, the exception is the response and the handler's  *)
(* body does not run.                                                      *)
(***************************************************************************)
\* subscribe with the contract lookup made before the token's verdict is looked at
subscribe_lookup_first(symbol, token) ==
    LET access == get_access(token, now) IN
    IF symbol \notin Contracts
    THEN /\ Reply("subscribe", token, symbol,
                  IF access # HTTP_200_OK THEN access
                  ELSE HTTP_404_NOT_FOUND(<<"Contract ">> \o symbol \o <<" not found.">>),
                  <<"get_contract">>)
         /\ UNCHANGED backend
    ELSE IF access # HTTP_200_OK
    THEN Reply("subscribe", token, symbol, access, <<"get_contract">>) /\ UNCHANGED backend
    ELSE /\ Reply("subscribe", token, symbol, HTTP_200_OK,
                  <<"get_contract", "subscribe">>)
         /\ backend' = [backend EXCEPT !.subscribed = @ \cup {symbol}]

\* @app.post("/tick/{vt_symbol}")
subscribe(symbol, token) ==
    LET access == get_access(token, now) IN
    IF access # HTTP_200_OK
    THEN Reply("subscribe", token, symbol, access, <<>>) /\ UNCHANGED backend
    ELSE IF symbol \notin Contracts
    THEN /\ Reply("subscribe", token, symbol,
                  HTTP_404_NOT_FOUND(<<"Contract ">> \o symbol \o <<" not found.">>),
                  <<"get_contract">>)
         /\ UNCHANGED backend
    ELSE /\ Reply("subscribe", token, symbol, HTTP_200_OK,
                  <<"get_contract", "subscribe">>)
         /\ backend' = [backend EXCEPT !.subscribed = @ \cup {symbol}]

\* @app.post("/order"): the order request names symbol and exchange
send_order(symbol, token) ==
    LET access == get_access(token, now) IN
    IF access # HTTP_200_OK
    THEN Reply("send_order", token, symbol, access, <<>>) /\ UNCHANGED backend
    ELSE IF symbol \notin Contracts
    THEN /\ Reply("send_order", token, symbol,
                  HTTP_404_NOT_FOUND(<<"Contract not found ", symbol[1], " ", symbol[3]>>),
                  <<"get_contract">>)
         /\ UNCHANGED backend
    ELSE /\ Len(backend.orders) < MaxOrders
         /\ LET vt_orderid == OrderIdSeq[Len(backend.orders) + 1] IN
            /\ Reply("send_order", token, symbol, OK({<<vt_orderid>>}),
                     <<"get_contract", "send_order">>)
            /\ backend' = [backend EXCEPT !.orders = Append(@, vt_orderid)]

\* cancel_order asking the backend a second time when the order is not found
cancel_order_retry(vt_orderid, token) ==
    LET access == get_access(token, now)
        known  == {backend.orders[i] : i \in 1 .. Len(backend.orders)} IN
    IF access # HTTP_200_OK
    THEN Reply("cancel_order", token, <<vt_orderid>>, access, <<>>) /\ UNCHANGED backend
    ELSE IF vt_orderid \notin known
    THEN /\ Reply("cancel_order", token, <<vt_orderid>>,
                  HTTP_404_NOT_FOUND(<<"Delegation ", vt_orderid, " not found.">>),
                  <<"get_order", "get_order">>)
         /\ UNCHANGED backend
    ELSE /\ Reply("cancel_order", token, <<vt_orderid>>, HTTP_200_OK,
                  <<"get_order", "cancel_order">>)
         /\ backend' = [backend EXCEPT !.cancels = @ \cup {vt_orderid}]

\* @app.delete("/order/{vt_orderid}")
cancel_order(vt_orderid, token) ==
    LET access == get_access(token, now)
        known  == {backend.orders[i] : i \in 1 .. Len(backend.orders)} IN
    IF access # HTTP_200_OK
    THEN Reply("cancel_order", token, <<vt_orderid>>, access, <<>>) /\ UNCHANGED backend
    ELSE IF vt_orderid \notin known
    THEN /\ Reply("cancel_order", token, <<vt_orderid>>,
                  HTTP_404_NOT_FOUND(<<"Delegation ", vt_orderid, " not found.">>),
                  <<"get_order">>)
         /\ UNCHANGED backend
    ELSE /\ Reply("cancel_order", token, <<vt_orderid>>, HTTP_200_OK,
                  <<"get_order", "cancel_order">>)
         /\ backend' = [backend EXCEPT !.cancels = @ \cup {vt_orderid}]

\* the six list queries: each returns the backend's snapshot of one collection
ListQueries == {"get_all_ticks", "get_all_orders", "get_all_trades",
                "get_all_positions", "get_all_accounts", "get_all_contracts"}

Snapshot(query) ==
    CASE query = "get_all_orders"    -> {<<backend.orders[i]>> : i \in 1 .. Len(backend.orders)}
      [] query = "get_all_contracts" -> Contracts
      [] query = "get_all_ticks"     -> backend.subscribed
      [] OTHER                       -> {}

get_all(query, token) ==
    LET access == get_access(token, now) IN
    /\ UNCHANGED backend
    /\ IF access # HTTP_200_OK
       THEN Reply(query, token, <<>>, access, <<>>)
       ELSE Reply(query, token, <<>>, OK(Snapshot(query)), <<query>>)

\* no exchange is being answered
NoExchange ==
    [handler |-> "none", token |-> NoToken, at |-> 0, arg |-> <<>>,
     response |-> HTTP_200_OK, calls |-> <<>>, access_token |-> NoToken]

\* the clock moves on; the exchange answered before is over
Tick ==
    /\ \E t \in Instants : t > now /\ now' = t
    /\ http' = NoExchange
    /\ UNCHANGED <<backend, issued, push_vars, panel_vars>>

\* the clock moves on by the lifetime of a token, to the second or not
Lapse ==
    /\ now \in Instants
    /\ \E t \in LateInstants : now' = t
    /\ http' = NoExchange
    /\ UNCHANGED <<backend, issued, push_vars, panel_vars>>

(***************************************************************************)
(* The push channel: handshake, receive loop, registry.                    *)
(***************************************************************************)
Range(seq) == {seq[i] : i \in 1 .. Len(seq)}

\* list.remove(x): the list without its first x
RECURSIVE Remove(_, _)
Remove(seq, x) ==
    IF seq = <<>> THEN <<>>
    ELSE IF Head(seq) = x THEN Tail(seq)
    ELSE <<Head(seq)>> \o Remove(Tail(seq), x)

\* status.WS_1008_POLICY_VIOLATION
WS_1008_POLICY_VIOLATION == "1008"

\* What a handshake token is, by the library's verification at clock `at`
Classify(token, at) ==
    IF token.kind = "none" THEN "missing"
    ELSE IF token.kind # "jwt" \/ token.sig # "good" THEN "undecodable"
    ELSE IF token.exp < at THEN "expired"
    ELSE IF token.sub # USERNAME THEN "bad_subject"
    ELSE "valid"

\* get_websocket_access without the comparison of the subject with USERNAME
get_websocket_access_any_subject(token, at) ==
    IF token.kind = "none"
    THEN [access |-> FALSE, close |-> WS_1008_POLICY_VIOLATION,
          raised |-> "HTTPException"]
    ELSE LET payload == jwt_decode(token, at) IN
         IF payload.error
         THEN [access |-> FALSE, close |-> "none", raised |-> "JWTError"]
         ELSE IF payload.sub = NoSub
         THEN [access |-> FALSE, close |-> WS_1008_POLICY_VIOLATION,
               raised |-> "HTTPException"]
         ELSE [access |-> TRUE, close |-> "none", raised |-> "none"]

\* get_websocket_access: whether it returns True, the code it closes the
\* websocket with ("none": it does not call close), and what it raises.
\* jwt.decode is not inside a try: its JWTError leaves the function before
\* any websocket.close
get_websocket_access(token, at) ==
    IF token.kind = "none"
    THEN [access |-> FALSE, close |-> WS_1008_POLICY_VIOLATION,
          raised |-> "HTTPException"]
    ELSE LET payload == jwt_decode(token, at) IN
         IF payload.error
         THEN [access |-> FALSE, close |-> "none", raised |-> "JWTError"]
         ELSE IF payload.sub = NoSub \/ payload.sub # USERNAME
         THEN [access |-> FALSE, close |-> WS_1008_POLICY_VIOLATION,
               raised |-> "HTTPException"]
         ELSE [access |-> TRUE, close |-> "none", raised |-> "none"]

\* A websocket before its handshake
NewSocket == [pc |-> "new", transport |-> "none", close_code |-> "none",
              hs |-> "none", send_failed |-> FALSE]

\* websocket_endpoint up to its first receive (websockets are numbered in the
\* order of their handshakes): FastAPI resolves
\* Depends(get_websocket_access); only when it returns does the endpoint run,
\* accept the websocket and append it to the registry.  When the dependency
\* raised without closing, the server ends the handshake with an internal
\* error.
websocket_endpoint(c, token) ==
    /\ ws[c].pc = "new"
    /\ \A d \in Conns : d < c => ws[d].pc # "new"
    /\ LET dep == get_websocket_access(token, now) IN
       IF dep.access
       THEN /\ ws' = [ws EXCEPT ![c] = [@ EXCEPT !.pc = "receive",
                                                !.transport = "up",
                                                !.hs = Classify(token, now)]]
            /\ active_websockets' = Append(active_websockets, c)
       ELSE /\ ws' = [ws EXCEPT ![c] = [@ EXCEPT
                        !.pc = "rejected",
                        !.transport = "down",
                        !.close_code = IF dep.close = "none" THEN "internal_error"
                                       ELSE dep.close,
                        !.hs = Classify(token, now)]]
            /\ UNCHANGED active_websockets
    /\ UNCHANGED <<now, rest_vars, panel_vars, received, loop_queue, tasks, next_event>>

\* the remote side closes an open websocket (or its connection is lost): the
\* transport is down and a disconnect message waits for the receive loop
peer_close(c) ==
    /\ ws[c].pc = "receive"
    /\ ws[c].transport = "up"
    /\ ws' = [ws EXCEPT ![c] = [@ EXCEPT !.transport = "down",
                                         !.close_code = "peer"]]
    /\ UNCHANGED <<now, rest_vars, panel_vars, active_websockets, received, loop_queue,
                   tasks, next_event>>

\* the receive loop: receive_text raises WebSocketDisconnect and the handler
\* removes its websocket (list.remove raises ValueError when it is absent)
receive_disconnect(c) ==
    /\ ws[c].pc = "receive"
    /\ ws[c].transport = "down"
    /\ IF c \in Range(active_websockets)
       THEN /\ active_websockets' = Remove(active_websockets, c)
            /\ ws' = [ws EXCEPT ![c].pc = "returned"]
       ELSE /\ ws' = [ws EXCEPT ![c].pc = "raised"]
            /\ UNCHANGED active_websockets
    /\ UNCHANGED <<now, rest_vars, panel_vars, received, loop_queue, tasks, next_event>>

\* the receive loop: receive_text raises something else than
\* WebSocketDisconnect (Starlette's receive_text raises KeyError on a binary
\* frame); `except WebSocketDisconnect` does not catch it, the handler ends
\* without the remove and the server closes the connection
receive_error(c) ==
    /\ ws[c].pc = "receive"
    /\ ws[c].transport = "up"
    /\ ws' = [ws EXCEPT ![c] = [@ EXCEPT !.pc = "raised",
                                         !.transport = "down",
                                         !.close_code = "internal_error"]]
    /\ UNCHANGED <<now, rest_vars, panel_vars, active_websockets, received, loop_queue,
                   tasks, next_event>>

(***************************************************************************)
(* The event bridge: the RPC callback thread and the broadcast tasks.      *)
(***************************************************************************)
NoTask == [st |-> "none", idx |-> 0, at_start |-> {}]

\* rpc_callback writing the message to the websockets itself, on its own thread
rpc_callback_direct ==
    /\ next_event <= MaxEvents
    /\ next_event' = next_event + 1
    /\ tasks' = [tasks EXCEPT ![next_event].st =
                    IF active_websockets = <<>> THEN "dropped" ELSE "done"]
    /\ received' = [c \in Conns |->
                      IF c \in Range(active_websockets) /\ ws[c].transport = "up"
                      THEN Append(received[c], next_event) ELSE received[c]]
    /\ UNCHANGED <<now, rest_vars, panel_vars, active_websockets, ws, loop_queue>>

\* rpc_callback without the test of the registry
rpc_callback_always_scheduling ==
    /\ next_event <= MaxEvents
    /\ next_event' = next_event + 1
    /\ tasks' = [tasks EXCEPT ![next_event].st = "scheduled"]
    /\ loop_queue' = Append(loop_queue, next_event)
    /\ UNCHANGED <<now, rest_vars, panel_vars, active_websockets, ws, received>>

\* rpc_callback waiting for the broadcasts it scheduled: the exception of a
\* failed send reaches the RPC client's thread, which takes no event after it
rpc_callback_waiting ==
    /\ next_event <= MaxEvents
    /\ \A e \in Events : tasks[e].st # "error"
    /\ next_event' = next_event + 1
    /\ IF active_websockets = <<>>
       THEN /\ tasks' = [tasks EXCEPT ![next_event].st = "dropped"]
            /\ UNCHANGED loop_queue
       ELSE /\ tasks' = [tasks EXCEPT ![next_event].st = "scheduled"]
            /\ loop_queue' = Append(loop_queue, next_event)
    /\ UNCHANGED <<now, rest_vars, panel_vars, active_websockets, ws, received>>

\* rpc_callback, on the RPC client's thread, for the backend's next event:
\* nothing when the registry is empty, else the message is built and
\* run_coroutine_threadsafe queues websocket_broadcast(msg) on the loop; the
\* returned future is dropped, the thread does not wait for it
rpc_callback ==
    /\ next_event <= MaxEvents
    /\ next_event' = next_event + 1
    /\ IF active_websockets = <<>>
       THEN /\ tasks' = [tasks EXCEPT ![next_event].st = "dropped"]
            /\ UNCHANGED loop_queue
       ELSE /\ tasks' = [tasks EXCEPT ![next_event].st = "scheduled"]
            /\ loop_queue' = Append(loop_queue, next_event)
    /\ UNCHANGED <<now, rest_vars, panel_vars, active_websockets, ws, received>>

\* websocket_broadcast catching the exception of a failed send and taking the
\* websocket out of the registry itself
websocket_broadcast_pruning(e) ==
    /\ \/ /\ tasks[e].st = "scheduled"
          /\ loop_queue # <<>> /\ Head(loop_queue) = e
          /\ loop_queue' = Tail(loop_queue)
       \/ /\ tasks[e].st = "running"
          /\ UNCHANGED loop_queue
    /\ LET i == tasks[e].idx
           started == IF tasks[e].st = "scheduled"
                      THEN Range(active_websockets) ELSE tasks[e].at_start
       IN
       IF i < Len(active_websockets)
       THEN LET websocket == active_websockets[i + 1] IN
            IF ws[websocket].transport = "up"
            THEN /\ received' = [received EXCEPT ![websocket] = Append(@, e)]
                 /\ tasks' = [tasks EXCEPT ![e] =
                        [st |-> "running", idx |-> i + 1, at_start |-> started]]
                 /\ UNCHANGED <<ws, active_websockets>>
            ELSE /\ tasks' = [tasks EXCEPT ![e] =
                        [st |-> "running", idx |-> i, at_start |-> started]]
                 /\ ws' = [ws EXCEPT ![websocket].send_failed = TRUE]
                 /\ active_websockets' = Remove(active_websockets, websocket)
                 /\ UNCHANGED received
       ELSE /\ tasks' = [tasks EXCEPT ![e] =
                   [st |-> "done", idx |-> 0, at_start |-> {}]]
            /\ UNCHANGED <<ws, received, active_websockets>>
    /\ UNCHANGED <<now, rest_vars, panel_vars, next_event>>

\* websocket_broadcast(msg) for event e, from one suspension to the next: the
\* loop starts the tasks in the order they were queued; a started task runs
\* one turn of `for websocket in active_websockets` (the list iterator keeps
\* an index into the live list) and suspends in `await send_text`.  Each
\* broadcast is a task of its own: the loop resumes suspended tasks as their
\* sends complete, in no order the code fixes, and runs the websockets'
\* handlers in between.  A send on a transport that is down raises; nothing
\* catches it, the task ends there with the exception kept in a future that
\* nobody reads.  at_start remembers, while the task runs, which websockets
\* were registered when it started.
websocket_broadcast(e) ==
    /\ \/ /\ tasks[e].st = "scheduled"
          /\ loop_queue # <<>> /\ Head(loop_queue) = e
          /\ loop_queue' = Tail(loop_queue)
       \/ /\ tasks[e].st = "running"
          /\ UNCHANGED loop_queue
    /\ LET i == tasks[e].idx
           started == IF tasks[e].st = "scheduled"
                      THEN Range(active_websockets) ELSE tasks[e].at_start
       IN
       IF i < Len(active_websockets)
       THEN LET websocket == active_websockets[i + 1] IN
            IF ws[websocket].transport = "up"
            THEN /\ received' = [received EXCEPT ![websocket] = Append(@, e)]
                 /\ tasks' = [tasks EXCEPT ![e] =
                        [st |-> "running", idx |-> i + 1, at_start |-> started]]
                 /\ UNCHANGED ws
            ELSE /\ tasks' = [tasks EXCEPT ![e] =
                        [st |-> "error", idx |-> 0, at_start |-> {}]]
                 /\ ws' = [ws EXCEPT ![websocket].send_failed = TRUE]
                 /\ UNCHANGED received
       ELSE /\ tasks' = [tasks EXCEPT ![e] =
                   [st |-> "done", idx |-> 0, at_start |-> {}]]
            /\ UNCHANGED <<ws, received>>
    /\ UNCHANGED <<now, rest_vars, panel_vars, active_websockets, next_event>>

(***************************************************************************)
(* The configuration panel, ui/widget.py: WebManager and the QProcess      *)
(* objects it starts.                                                      *)
(***************************************************************************)
\* the line edits (two of the six can be typed into here) and the buttons
LineEdits == {"username_line", "password_line", "req_line", "sub_line",
              "host_line", "port_line"}
Widgets   == LineEdits \cup {"start_button", "end_button"}
Typed     == [username_line |-> {"vnpy", "admin"}, port_line |-> {"8000", "8080"}]
\* setting.get(key, default)
Defaults  == [username_line |-> "vnpy", port_line |-> "8000"]

\* the user types into a line edit, which Qt allows while it is enabled
edit(w, t) ==
    /\ enabled[w]
    /\ text[w] # t
    /\ text' = [text EXCEPT ![w] = t]
    /\ UNCHANGED <<enabled, setting, server_active, procs, text_edit>>
    /\ UNCHANGED <<now, rest_vars, push_vars>>

\* WebManager.start without start_button.setDisabled(True)
start_leaving_button ==
    /\ enabled["start_button"]
    /\ Len(procs) < MaxRuns
    /\ setting' = text
    /\ server_active' = TRUE
    /\ procs' = Append(procs, [state |-> "Starting", port |-> text["port_line"],
                               killed |-> FALSE])
    /\ UNCHANGED <<enabled, text, text_edit>>
    /\ UNCHANGED <<now, rest_vars, push_vars>>

\* WebManager.start, the slot of start_button.clicked (a disabled button emits
\* no click): saves the setting, starts the RPC server unless it is active,
\* disables the button and starts a new QProcess, which becomes self.process
start ==
    /\ enabled["start_button"]
    /\ Len(procs) < MaxRuns
    /\ setting' = text
    /\ server_active' = TRUE
    /\ enabled' = [enabled EXCEPT !["start_button"] = FALSE]
    /\ procs' = Append(procs, [state |-> "Starting", port |-> text["port_line"],
                               killed |-> FALSE])
    /\ UNCHANGED <<text, text_edit>>
    /\ UNCHANGED <<now, rest_vars, push_vars>>

\* WebManager.end, the slot of end_button.clicked: self.process.kill(), which
\* does nothing to a process that is not running; without any self.process
\* the attribute lookup raises
end ==
    /\ enabled["end_button"]
    /\ IF procs = <<>>
       THEN /\ text_edit' = Append(text_edit, "AttributeError")
            /\ UNCHANGED procs
       ELSE /\ procs' = [procs EXCEPT ![Len(procs)].killed =
                            @ \/ procs[Len(procs)].state \in {"Starting", "Running"}]
            /\ UNCHANGED text_edit
    /\ UNCHANGED <<enabled, text, setting, server_active>>
    /\ UNCHANGED <<now, rest_vars, push_vars>>

\* QProcess i emits started; its slot is WebManager.web_started
web_started(i) ==
    /\ procs[i].state = "Starting"
    /\ procs' = [procs EXCEPT ![i].state = "Running"]
    /\ text_edit' = Append(text_edit, "Web server started")
    /\ enabled' = [w \in Widgets |-> w = "end_button"]
    /\ UNCHANGED <<text, setting, server_active>>
    /\ UNCHANGED <<now, rest_vars, push_vars>>

\* QProcess i emits finished (the child exited, crashed or was killed); its
\* slot is WebManager.web_finished
web_finished(i) ==
    /\ procs[i].state = "Running"
    /\ procs' = [procs EXCEPT ![i].state = "NotRunning"]
    /\ text_edit' = Append(text_edit, "Web server stopped")
    /\ enabled' = [w \in Widgets |-> w # "end_button"]
    /\ UNCHANGED <<text, setting, server_active>>
    /\ UNCHANGED <<now, rest_vars, push_vars>>

\* QProcess i could not start its program: errorOccurred, to which nothing
\* is connected, and neither started nor finished
failed_to_start(i) ==
    /\ procs[i].state = "Starting"
    /\ procs' = [procs EXCEPT ![i].state = "FailedToStart"]
    /\ UNCHANGED <<enabled, text, setting, server_active, text_edit>>
    /\ UNCHANGED <<now, rest_vars, push_vars>>

(***************************************************************************)
(* The specifications.                                                     *)
(***************************************************************************)
Init ==
    /\ now = 0
    /\ backend = [subscribed |-> {}, orders |-> <<>>, cancels |-> {}]
    /\ http = NoExchange
    /\ issued = {}
    /\ active_websockets = <<>>
    /\ ws = [c \in Conns |-> NewSocket]
    /\ received = [c \in Conns |-> <<>>]
    /\ loop_queue = <<>>
    /\ tasks = [e \in Events |-> NoTask]
    /\ next_event = 1
    /\ enabled = [w \in Widgets |-> w # "end_button"]
    /\ text = Defaults
    /\ setting = Defaults
    /\ server_active = FALSE
    /\ procs = <<>>
    /\ text_edit = <<>>

\* the push channel
Next ==
    \/ Tick
    \/ \E c \in Conns, token \in Tokens : websocket_endpoint(c, token)
    \/ \E c \in Conns : peer_close(c)
    \/ \E c \in Conns : receive_disconnect(c)
    \/ \E c \in Conns : receive_error(c)
    \/ rpc_callback
    \/ \E e \in Events : websocket_broadcast(e)

Spec == Init /\ [][Next]_vars

\* the REST gateway
NextRest ==
    \/ Tick
    \/ \E token \in Tokens, symbol \in Symbols : subscribe(symbol, token)
    \/ \E token \in Tokens, symbol \in Symbols : send_order(symbol, token)
    \/ \E token \in Tokens, vt_orderid \in AskedIds : cancel_order(vt_orderid, token)
    \/ \E token \in Tokens, query \in ListQueries : get_all(query, token)

SpecRest == Init /\ [][NextRest]_vars

\* login, and the queries of a client that presents what login gave it (or
\* anything else) while the clock runs past the lifetime of a token
NextToken ==
    \/ Tick
    \/ Lapse
    \/ \E username \in Usernames, password \in Passwords : login(username, password)
    \/ \E token \in Tokens \cup issued, query \in ListQueries : get_all(query, token)

SpecToken == Init /\ [][NextToken]_vars

\* the configuration panel: the user's typing and clicks, the signals of the
\* processes
NextPanel ==
    \/ \E w \in DOMAIN Typed : \E t \in Typed[w] : edit(w, t)
    \/ start
    \/ end
    \/ \E i \in 1 .. Len(procs) : web_started(i)
    \/ \E i \in 1 .. Len(procs) : web_finished(i)
    \/ \E i \in 1 .. Len(procs) : failed_to_start(i)

SpecPanel == Init /\ [][NextPanel]_vars

(***************************************************************************)
(* The push channel's claims (Spec).                                       *)
(***************************************************************************)
InRegistry(c) == c \in Range(active_websockets)

\* how many copies of event e were written to websocket c
Copies(c, e) == Cardinality({i \in 1 .. Len(received[c]) : received[c][i] = e})

\* the websockets in the registry when broadcast e started
AtStart(e) == IF tasks[e].st = "scheduled" THEN Range(active_websockets)
              ELSE tasks[e].at_start

\* broadcast e ends in this step
Ends(e) == tasks[e].st \in {"scheduled", "running"} /\ tasks'[e].st \in {"done", "error"}

\* C3: a handshake with no token, or with an expired or otherwise invalid
\* token, is closed with the policy-violation code and no message is ever
\* written to that websocket.
C3_InvalidTokenClosedWith1008 ==
    \A c \in Conns :
        ws[c].hs \in {"missing", "undecodable", "expired", "bad_subject"}
            => /\ ws[c].close_code = WS_1008_POLICY_VIOLATION
               /\ received[c] = <<>>

\* C4: every websocket in the registry, and every websocket that was ever
\* accepted, presented a token that verified at its handshake; a websocket
\* whose token did not verify is not in the registry.
C4_RegistryOnlyVerified ==
    \A c \in Conns :
        (InRegistry(c) \/ ws[c].pc \in {"receive", "returned", "raised"})
            => ws[c].hs = "valid"

\* C4 witness: one websocket was turned away for the subject of its token,
\* another one verified and is in the registry
C4_Witness ==
    \E c, d \in Conns :
        /\ ws[c].hs = "bad_subject" /\ ws[c].pc = "rejected" /\ ~InRegistry(c)
        /\ ws[d].hs = "valid" /\ ws[d].pc = "receive" /\ InRegistry(d)

\* C5: when a broadcast ends, every websocket that was registered when it
\* started, is still registered and whose transport is up (its send did not
\* fail) has exactly one copy of the message, wherever a failing websocket
\* stands in the registry.
C5_FailureDoesNotStopBroadcast ==
    [][\A e \in Events :
          Ends(e) =>
             \A c \in AtStart(e) :
                 (c \in Range(active_websockets') /\ ws'[c].transport = "up")
                     => Copies(c, e)' = 1]_vars

\* C6: when a broadcast completes without error, every websocket that was
\* registered when it started and is still registered has the message, also
\* when a disconnect handler removed another websocket while the broadcast was
\* suspended.
C6_RemovalDuringBroadcastSkipsNobody ==
    [][\A e \in Events :
          (Ends(e) /\ tasks'[e].st = "done") =>
             \A c \in AtStart(e) :
                 c \in Range(active_websockets') => Copies(c, e)' = 1]_vars

\* C7: the registry never holds a websocket twice and never retains a
\* websocket whose transport has failed (read in the claim's favour: a
\* websocket whose handler is still in its receive loop, about to see the
\* disconnect and remove it, does not count as retained).
C7_NoDuplicateNoDeadConnection ==
    /\ \A i, j \in 1 .. Len(active_websockets) :
           i # j => active_websockets[i] # active_websockets[j]
    /\ \A c \in Conns :
           (ws[c].transport = "down" /\ ws[c].pc # "receive") => ~InRegistry(c)

\* C8: events are numbered in the order rpc_callback got them; every websocket
\* receives the messages it receives in that order.
C8_BroadcastsInEventOrder ==
    \A c \in Conns :
        \A i, j \in 1 .. Len(received[c]) :
            i < j => received[c][i] < received[c][j]

\* C9: a step of rpc_callback (the one that takes the backend's next event)
\* changes neither the registry nor any websocket and writes no message; it
\* only queues the broadcast on the loop, or drops the event, and leaves the
\* broadcasts already queued or started as they are, not waiting for any.
C9_CallbackOnlySchedules ==
    [][next_event' # next_event =>
          /\ active_websockets' = active_websockets
          /\ received' = received
          /\ ws' = ws
          /\ tasks'[next_event].st \in {"scheduled", "dropped"}
          /\ \A e \in Events \ {next_event} : tasks'[e] = tasks[e]
          /\ \/ loop_queue' = loop_queue
             \/ loop_queue' = Append(loop_queue, next_event)]_vars

\* C9 witness: rpc_callback has returned for both events while the first
\* broadcast is suspended in a send and the second has not started
C9_Witness ==
    /\ next_event = 3
    /\ tasks[1].st = "running" /\ tasks[1].idx = 1
    /\ tasks[2].st = "scheduled" /\ loop_queue = <<2>>
    /\ Len(active_websockets) = 2

\* C10: after a send to a websocket has failed the websocket is Closed and
\* removed from the registry (read in the claim's favour: at the latest when
\* its handler is over, so that nothing is left to remove it).
C10_FailedSendIsRemoved ==
    \A c \in Conns :
        (ws[c].send_failed /\ ws[c].pc # "receive") => ~InRegistry(c)

(***************************************************************************)
(* The REST gateway's claims (SpecRest).                                   *)
(***************************************************************************)
\* the handlers that declare Depends(get_access)
Protected == {"subscribe", "send_order", "cancel_order"} \cup ListQueries

\* the token rule as the claim words it: the signature verifies, the clock is
\* strictly before expires-at, the subject is the configured user
TokenValidAsClaimed(token, at) ==
    /\ token.kind = "jwt"
    /\ token.sig = "good"
    /\ at < token.exp
    /\ token.sub = USERNAME

\* C1: a token presented to a protected handler is accepted only if its
\* signature verifies and now < expires-at and its subject is the configured
\* username; every other request is answered 401 Unauthorized.
C1_AcceptedOnlyIfValid ==
    (http.handler \in Protected /\ ~TokenValidAsClaimed(http.token, http.at))
        => http.response.status = "401"

\* C2: whatever requests came before, a request to a protected handler whose
\* token check fails is answered 401, the handler made no rpc_client call for
\* it and the backend's state is as it was.
C2_UnauthorizedMakesNoBackendCall ==
    [][(http'.handler \in Protected
          /\ get_access(http'.token, http'.at) # HTTP_200_OK)
        => (/\ http'.response.status = "401"
            /\ http'.calls = <<>>
            /\ backend' = backend)]_vars

\* C2 witness: an expired token of the configured user, well signed, was turned
\* away by a handler while the backend holds an order and a subscription
C2_Witness ==
    /\ http.handler \in {"subscribe", "send_order", "cancel_order"}
    /\ http.token.kind = "jwt" /\ http.token.sig = "good"
    /\ http.token.sub = USERNAME /\ http.token.exp < http.at
    /\ http.response.status = "401" /\ http.calls = <<>>
    /\ backend.orders # <<>> /\ backend.subscribed # {}

(***************************************************************************)
(* Login and the lifetime of the tokens it issues (SpecToken).             *)
(***************************************************************************)

\* the credential pair of the last login request is the configured one
Matches == http.arg = <<USERNAME, PASSWORD>>

IssuedAt(token) == token.exp - Minutes(ACCESS_TOKEN_EXPIRE_MINUTES)

\* the last exchange presented a token that login had issued
PresentsIssued == http.handler \in Protected /\ http.token \in issued

\* C12: a token issued for a subject and verified at once is accepted for that
\* subject; once the clock has reached or passed its expires-at, verification
\* rejects it, whatever was issued for the same subject in the meantime.
C12_IssueVerifyRoundTrip ==
    PresentsIssued =>
        /\ http.token.sub = USERNAME
        /\ http.at = IssuedAt(http.token) => http.response.status # "401"
        /\ http.at >= http.token.exp => http.response = credentials_exception
\* C16: every token login issues expires exactly 30 minutes after the instant
\* of issue; it is accepted at every instant strictly before that and
\* rejected at every instant from then on.
C16_LoginTokenLivesThirtyMinutes ==
    /\ (http.handler = "login" /\ http.response.status = "200") =>
            http.access_token.exp = http.at + 30 * 60
    /\ PresentsIssued =>
            IF http.at < IssuedAt(http.token) + 30 * 60
            THEN http.response.status = "200"
            ELSE http.response.status = "401"
(***************************************************************************)
(* Lookups that find nothing (SpecRest).                                   *)
(***************************************************************************)

\* the text has the part in it, piece by piece
Contains(detail, part) ==
    \E i \in 1 .. Len(detail) - Len(part) + 1 :
        SubSeq(detail, i, i + Len(part) - 1) = part

\* the lookup a handler makes before it acts
LookupOf(handler) ==
    IF handler = "cancel_order" THEN "get_order" ELSE "get_contract"

SomeSendFailed == \E e \in Events : tasks[e].st = "error"

\* C14: the write error of a broadcast never reaches the backend's callback
\* thread: whether or not a send has failed, rpc_callback takes the next
\* event and returns, and schedules its broadcast when a websocket is
\* registered.
C14_SendErrorNotSurfaced ==
    next_event <= MaxEvents =>
        ENABLED (/\ rpc_callback
                 /\ active_websockets # <<>> =>
                        /\ tasks'[next_event].st = "scheduled"
                        /\ loop_queue' = Append(loop_queue, next_event))

\* the broadcast of event 1 has ended in a failed send, the backend has its
\* next event to publish and a websocket is registered
C14_Witness ==
    /\ tasks[1].st = "error"
    /\ next_event = 2
    /\ active_websockets # <<>>
(***************************************************************************)
(* What a rejection tells (SpecToken).                                     *)
(***************************************************************************)

\* the last exchange was turned down as unauthorized
Rejected == http.response.status = "401"

\* C15 as stated: at each entry point every rejected request gets one and the
\* same response, whatever the reason: login the same for a wrong name and a
\* wrong password, a protected handler the same for every rejected request,
\* no more specific than "Could not validate credentials".
C15_RejectionsIdentical ==
    /\ (http.handler = "login" /\ Rejected) => http.response = incorrect_login
    /\ (http.handler \in Protected /\ Rejected) =>
            http.response = credentials_exception

\* C15 amended: the same, for the requests that carry a token (whether it is
\* unreadable, badly signed, expired, without subject or for another subject);
\* a request that carries no token at all is told so ("Not authenticated").
C15_TokenRejectionsIdentical ==
    /\ (http.handler = "login" /\ Rejected) => http.response = incorrect_login
    /\ (http.handler \in Protected /\ Rejected) =>
            http.response = IF http.token.kind = "none" THEN not_authenticated
                            ELSE credentials_exception

\* a token that login issued was turned down, for its age alone, with the
\* same words as any other
C15_Witness ==
    /\ PresentsIssued
    /\ http.at > http.token.exp
    /\ http.response = credentials_exception
\* event e has been written to some websocket
Delivered(e) == \E c \in Conns : Copies(c, e) > 0

\* C17: when the registry is empty as rpc_callback is called for an event, no
\* broadcast is scheduled on the loop, and that event is never written to any
\* websocket, those registered afterwards included.
C17_EmptyRegistryDropsEvent ==
    [][/\ (next_event' # next_event /\ active_websockets = <<>>) =>
            /\ loop_queue' = loop_queue
            /\ tasks'[next_event].st = "dropped"
            /\ ~Delivered(next_event)'
       /\ \A e \in Events : tasks[e].st = "dropped" =>
            /\ tasks'[e].st = "dropped"
            /\ e \notin Range(loop_queue')
            /\ ~Delivered(e)']_vars

\* event 1 came while nobody was registered; a websocket opened afterwards
\* has been written event 2 and nothing else
C17_Witness ==
    /\ tasks[1].st = "dropped"
    /\ \E c \in Conns : received[c] = <<2>>
\* C18: get_access and get_websocket_access accept the same (token, time)
\* pairs: a token with which a REST handler answers also opens the push
\* channel at that instant, and a token turned down by one is turned down by
\* the other.
C18_SameTokensAccepted ==
    http.handler \in Protected =>
        (~Rejected <=> get_websocket_access(http.token, http.at).access)

\* a query made with a token of login in the very second it expires: the
\* handler answers, and the handshake would be let through as well
C18_Witness ==
    /\ PresentsIssued
    /\ http.at = http.token.exp
    /\ ~Rejected
    /\ get_websocket_access(http.token, http.at).access
(***************************************************************************)
(* The registry and the handlers of its websockets (Spec).                 *)
(***************************************************************************)

\* how many times websocket c stands in a list
Times(list, c) == Cardinality({i \in 1 .. Len(list) : list[i] = c})

\* the handler of websocket c gets the disconnect in this step
Disconnects(c) ==
    ws[c].pc = "receive" /\ ws[c].transport = "down" /\ ws'[c].pc # "receive"

\* C19: whatever the interleaving of handlers and broadcasts, an accepted
\* websocket is appended to active_websockets exactly once (by its handshake),
\* is taken out at most once (by its handler, which then is over), and the
\* remove of the disconnect handler always finds it there.
C19_AppendedOnceRemovedOnce ==
    [][/\ active_websockets' # active_websockets =>
            \A c \in Conns :
                /\ Times(active_websockets', c) <= 1
                /\ Times(active_websockets', c) > Times(active_websockets, c) =>
                        ws[c].pc = "new" /\ ws'[c].pc = "receive"
                /\ Times(active_websockets', c) < Times(active_websockets, c) =>
                        Disconnects(c) /\ ws'[c].pc = "returned"
       /\ \A c \in Conns :
            /\ (ws[c].pc = "new" /\ ws'[c].pc = "receive") =>
                    /\ Times(active_websockets, c) = 0
                    /\ Times(active_websockets', c) = 1
            /\ Disconnects(c) =>
                    /\ Times(active_websockets, c) = 1
                    /\ Times(active_websockets', c) = 0
                    /\ ws'[c].pc = "returned"]_vars

\* websocket 1 was written event 1 by a broadcast that is still running, its
\* handler has since taken it out of the registry, websocket 2 is registered
C19_Witness ==
    /\ ws[1].pc = "returned"
    /\ received[1] = <<1>>
    /\ tasks[1].st = "running"
    /\ active_websockets = <<2>>
(***************************************************************************)
(* The buttons of the configuration panel (SpecPanel).                     *)
(***************************************************************************)

\* the web child processes that exist: started by start() and not yet over
Alive == {i \in 1 .. Len(procs) : procs[i].state \in {"Starting", "Running"}}

\* C20: whatever the user clicks and the processes signal, Start and Stop are
\* never both enabled; at most one web child process exists at a time; Stop
\* (process.kill) can only be clicked while self.process is a started
\* process; and once the process has finished Start is enabled again.
C20_StartAndStopExclude ==
    /\ ~(enabled["start_button"] /\ enabled["end_button"])
    /\ Cardinality(Alive) <= 1
    /\ enabled["end_button"] =>
            procs # <<>> /\ procs[Len(procs)].state = "Running"
    /\ (procs # <<>> /\ procs[Len(procs)].state = "NotRunning") =>
            enabled["start_button"]

\* a first web process was stopped with the button and has finished, a second
\* one was started since and runs; Stop is enabled and Start is not
C20_Witness ==
    /\ Len(procs) = 2
    /\ procs[1].killed /\ procs[1].state = "NotRunning"
    /\ procs[2].state = "Running"
    /\ enabled["end_button"] /\ ~enabled["start_button"]
=============================================================================
